---- MODULE Spec2Model ----
(***************************************************************************)
(* The in-memory document store (backend/app/db/vector_store.py) and the   *)
(* request handlers that use it (backend/app/routers/chat.py, upload.py).  *)
(*                                                                         *)
(* Scheduling.  The handlers are coroutines on one asyncio event loop, so  *)
(* a handler runs without interruption from one suspension point to the    *)
(* next.  ask_question awaits LLMService.answer_question (chat.py:45),     *)
(* whose body (llm_service.py:92-124) contains no await: it calls the      *)
(* blocking self.model.generate_content and returns.  Awaiting a coroutine *)
(* that never suspends does not yield to the event loop, so the whole body *)
(* of ask_question is one step.  The same holds for clear_conversation and *)
(* delete_document (no await at all) and for upload_pdf after its only     *)
(* real suspension, await file.read() (upload.py:32), which precedes every *)
(* access to the store.  Each handler is therefore one action.             *)
(*                                                                         *)
(* The methods of VectorStore are also callable directly (the module-level *)
(* instance vector_store is public), so each method is an action of its    *)
(* own, with arguments drawn from small sets.                              *)
(***************************************************************************)
EXTENDS Integers, Sequences, FiniteSets, TLC

\* ----------------------------------------------------------------- bounds
\* Largest number of messages the store holds at once, over all ledgers.
MaxMessages == 2
\* The wall clock reads 0..MaxClock.
MaxClock == 1

\* The document ids in play (uuid4 strings in the code).  Two ids are enough
\* for every statement about "the id" and "every other id".
DocumentIds == { 1, 2 }

\* Optional[T]: Python's None, or a present value.
None == <<>>
Some(x) == <<x>>

\* Python truthiness of an Optional[str]: None and "" are falsy.
Truthy(opt) == opt # None /\ opt[1] # ""

\* ----------------------------------------------------------------- inputs
\* A document text is a sequence of characters, a summary the dict of a
\* SummarySections, a metadata dict a function on its keys.  The second
\* metadata below carries its own document_id and stored_at, which
\* store_document overrides.
\* The (text, summary, metadata) triples given to store_document directly.
StoreInputs ==
  { << <<"a", "b">>, [title |-> "T1", authors |-> "A, B"],
       [filename |-> "a.pdf", pages |-> 1, size |-> 10] >>,
    << <<"B", "a">>, [title |-> "T2", authors |-> "C"],
       [filename |-> "b.pdf", size |-> 20, document_id |-> 0, stored_at |-> 0 - 1] >> }

\* The (extracted text, summary, extracted metadata) triples of an upload:
\* extract_metadata returns filename, pages and size.
UploadInputs ==
  { << <<"a", "b">>, [title |-> "T1", authors |-> "A, B"],
       [filename |-> "a.pdf", pages |-> 1, size |-> 10] >> }

Questions == { "q1" }

\* The ask requests that may be in flight together, each with its question
\* and with the answer the model gives to it.
Requests == { "r1", "r2" }
QuestionOf(r) == IF r = "r1" THEN "q1" ELSE "q2"
AnswerTo(question) == IF question = "q1" THEN "a1" ELSE "a2"
\* What LLMService.answer_question returns: None on an exception, else
\* response.text, which may be the empty string.
AnswerOutcomes == { None, Some(""), Some("a1") }

\* (role, content) pairs given to add_conversation_message directly; they
\* differ from both messages of an ask (user q1, assistant a1).
MessageInputs == { <<"assistant", "m1">> }

\* ------------------------------------------------------------------ state
VARIABLES
  vector_store,   \* the VectorStore instance: documents, summaries, metadata, conversations
  now,            \* the reading of datetime.now()
  ret,            \* the last operation: its name, arguments and result (id 0: no id)
  appended,       \* per id, the (role, content) appended since the last store, clear or delete
  live,           \* ids stored and not deleted since
  inserted,       \* the live ids, in the order of their first store since their last delete
  pending         \* per ask request, where its handler stands

vars == << vector_store, now, ret, appended, live, inserted, pending >>

\* -------------------------------------------------- Python dict modelling
\* self.documents is the dict the code iterates (search, list), so it keeps
\* its insertion order: a sequence of [k, v] entries.  Assigning to a key
\* that is present keeps its position; a new key goes to the end.
DictKeys(d) == { d[i].k : i \in DOMAIN d }
DictHas(d, key) == key \in DictKeys(d)
DictGet(d, key) == d[CHOOSE i \in DOMAIN d : d[i].k = key].v
DictSet(d, key, val) ==
  IF DictHas(d, key)
  THEN [i \in DOMAIN d |-> IF d[i].k = key THEN [k |-> key, v |-> val] ELSE d[i]]
  ELSE Append(d, [k |-> key, v |-> val])
DictDel(d, key) == SelectSeq(d, LAMBDA e : e.k # key)

\* The other three dicts are never iterated: functions on their key sets.
FnSet(f, key, val) == [x \in DOMAIN f \cup {key} |-> IF x = key THEN val ELSE f[x]]
FnDel(f, key) == [x \in DOMAIN f \ {key} |-> f[x]]
\* dict.get(key): None when absent.
FnGet(f, key) == IF key \in DOMAIN f THEN Some(f[key]) ELSE None

\* ------------------------------------------------------------ VectorStore
\* VectorStore.__init__
VectorStoreInit ==
  [documents |-> <<>>, summaries |-> <<>>, metadata |-> <<>>, conversations |-> <<>>]

\* Mutant: the merge written the other way round,
\* {"stored_at": ..., "document_id": ..., **metadata}: the caller's keys win.
StoredMetadata_CallerWins(meta, document_id, t) ==
  [key \in DOMAIN meta \cup {"stored_at", "document_id"} |->
     IF key \in DOMAIN meta THEN meta[key]
     ELSE IF key = "stored_at" THEN t
     ELSE document_id]

\* Mutant: the caller's metadata is stored as it came, stamped with the
\* time only.
StoredMetadata_TimeOnly(meta, document_id, t) ==
  [key \in DOMAIN meta \cup {"stored_at"} |->
     IF key = "stored_at" THEN t ELSE meta[key]]

\* {**metadata, "stored_at": ..., "document_id": document_id}
StoredMetadata(meta, document_id, t) ==
  [key \in DOMAIN meta \cup {"stored_at", "document_id"} |->
     IF key = "stored_at" THEN t
     ELSE IF key = "document_id" THEN document_id
     ELSE meta[key]]

\* Mutant: the ledger is created only when the id has none
\* (conversations.setdefault(document_id, [])).
store_document_KeepsLedger(vs, document_id, text, summary, meta, t) ==
  [vs |-> [documents |-> DictSet(vs.documents, document_id, text),
           summaries |-> FnSet(vs.summaries, document_id, summary),
           metadata |-> FnSet(vs.metadata, document_id,
                              StoredMetadata(meta, document_id, t)),
           conversations |-> IF document_id \in DOMAIN vs.conversations
                             THEN vs.conversations
                             ELSE FnSet(vs.conversations, document_id, <<>>)],
   ret |-> TRUE]

\* store_document: the store afterwards (vs) and the value returned (ret).
store_document(vs, document_id, text, summary, meta, t) ==
  [vs |-> [documents |-> DictSet(vs.documents, document_id, text),
           summaries |-> FnSet(vs.summaries, document_id, summary),
           metadata |-> FnSet(vs.metadata, document_id,
                              StoredMetadata(meta, document_id, t)),
           conversations |-> FnSet(vs.conversations, document_id, <<>>)],
   ret |-> TRUE]

\* store_document when its statement number fail_at raises: the four
\* assignments are statements 1 to 4 (the metadata dict is built, with
\* **metadata and datetime.now(), before it is assigned), logger.info is
\* statement 5.  The assignments before fail_at stay as they are, the
\* handler logs and returns False.
store_document_failing(vs, document_id, text, summary, meta, t, fail_at) ==
  [vs |-> [documents |-> IF fail_at > 1
                         THEN DictSet(vs.documents, document_id, text)
                         ELSE vs.documents,
           summaries |-> IF fail_at > 2
                         THEN FnSet(vs.summaries, document_id, summary)
                         ELSE vs.summaries,
           metadata |-> IF fail_at > 3
                        THEN FnSet(vs.metadata, document_id,
                                   StoredMetadata(meta, document_id, t))
                        ELSE vs.metadata,
           conversations |-> IF fail_at > 4
                             THEN FnSet(vs.conversations, document_id, <<>>)
                             ELSE vs.conversations],
   ret |-> FALSE]

\* get_document: None, or the composite view.
get_document(vs, document_id) ==
  IF ~DictHas(vs.documents, document_id)
  THEN None
  ELSE Some([document_id |-> document_id,
             text |-> DictGet(vs.documents, document_id),
             summary |-> FnGet(vs.summaries, document_id),
             metadata |-> FnGet(vs.metadata, document_id)])

\* Mutant: the message is inserted at the front of the ledger.
add_conversation_message_Prepend(vs, document_id, role, content, t) ==
  LET convs == IF document_id \notin DOMAIN vs.conversations
               THEN FnSet(vs.conversations, document_id, <<>>)
               ELSE vs.conversations
      message == [role |-> role, content |-> content, timestamp |-> t]
  IN [vs |-> [vs EXCEPT !.conversations =
                 FnSet(convs, document_id, <<message>> \o convs[document_id])],
      ret |-> Some(message.timestamp)]

\* Mutant: the ledger is replaced by the one new message.
add_conversation_message_Overwrite(vs, document_id, role, content, t) ==
  LET message == [role |-> role, content |-> content, timestamp |-> t]
  IN [vs |-> [vs EXCEPT !.conversations =
                 FnSet(vs.conversations, document_id, <<message>>)],
      ret |-> Some(message.timestamp)]

\* Mutant: the timestamp is the clock reading taken once, at start-up.
add_conversation_message_FrozenClock(vs, document_id, role, content, t) ==
  LET message == [role |-> role, content |-> content, timestamp |-> 0]
      old == IF document_id \in DOMAIN vs.conversations
             THEN vs.conversations[document_id] ELSE <<>>
  IN [vs |-> [vs EXCEPT !.conversations =
                 FnSet(vs.conversations, document_id, Append(old, message))],
      ret |-> Some(message.timestamp)]

\* add_conversation_message: creates the ledger when the id has none.
add_conversation_message(vs, document_id, role, content, t) ==
  LET convs == IF document_id \notin DOMAIN vs.conversations
               THEN FnSet(vs.conversations, document_id, <<>>)
               ELSE vs.conversations
      message == [role |-> role, content |-> content, timestamp |-> t]
  IN [vs |-> [vs EXCEPT !.conversations =
                 FnSet(convs, document_id, Append(convs[document_id], message))],
      ret |-> Some(message.timestamp)]

\* get_conversation_history
get_conversation_history(vs, document_id) ==
  IF document_id \in DOMAIN vs.conversations
  THEN vs.conversations[document_id]
  ELSE <<>>

\* Mutant: the text is left in self.documents.
delete_document_KeepsText(vs, document_id) ==
  [vs |-> [documents |-> vs.documents,
           summaries |-> FnDel(vs.summaries, document_id),
           metadata |-> FnDel(vs.metadata, document_id),
           conversations |-> FnDel(vs.conversations, document_id)],
   ret |-> TRUE]

\* Mutant: the summary is left in self.summaries.
delete_document_KeepsSummary(vs, document_id) ==
  [vs |-> [documents |-> DictDel(vs.documents, document_id),
           summaries |-> vs.summaries,
           metadata |-> FnDel(vs.metadata, document_id),
           conversations |-> FnDel(vs.conversations, document_id)],
   ret |-> TRUE]

\* delete_document
delete_document(vs, document_id) ==
  [vs |-> [documents |-> IF DictHas(vs.documents, document_id)
                         THEN DictDel(vs.documents, document_id)
                         ELSE vs.documents,
           summaries |-> IF document_id \in DOMAIN vs.summaries
                         THEN FnDel(vs.summaries, document_id)
                         ELSE vs.summaries,
           metadata |-> IF document_id \in DOMAIN vs.metadata
                        THEN FnDel(vs.metadata, document_id)
                        ELSE vs.metadata,
           conversations |-> IF document_id \in DOMAIN vs.conversations
                             THEN FnDel(vs.conversations, document_id)
                             ELSE vs.conversations],
   ret |-> TRUE]

\* Mutant: the records are listed newest first.
list_documents_NewestFirst(vs) ==
  [i \in 1..Len(vs.documents) |->
     LET doc_id == vs.documents[Len(vs.documents) + 1 - i].k
     IN IF doc_id \in DOMAIN vs.metadata
        THEN vs.metadata[doc_id]
        ELSE [document_id |-> doc_id]]

\* list_documents: one record per key of documents, in the dict's order;
\* metadata.get(doc_id, {"document_id": doc_id}).
list_documents(vs) ==
  [i \in 1..Len(vs.documents) |->
     LET doc_id == vs.documents[i].k
     IN IF doc_id \in DOMAIN vs.metadata
        THEN vs.metadata[doc_id]
        ELSE [document_id |-> doc_id]]

\* ---- search_documents ----
\* A text is the sequence of its characters.

\* str.lower() on the characters the inputs use.
LowerChar(c) == IF c = "A" THEN "a" ELSE IF c = "B" THEN "b" ELSE c
Lower(str) == [i \in DOMAIN str |-> LowerChar(str[i])]

\* The characters str.split() splits on.
IsSpace(c) == c \in {" ", "\t", "\n"}

\* str.split(): the runs of non-space characters, left to right. cur is
\* the run being read, terms the runs read so far.
RECURSIVE SplitFrom(_, _, _, _)
SplitFrom(str, i, cur, terms) ==
  IF i > Len(str)
  THEN IF cur = <<>> THEN terms ELSE Append(terms, cur)
  ELSE IF IsSpace(str[i])
       THEN SplitFrom(str, i + 1, <<>>, IF cur = <<>> THEN terms ELSE Append(terms, cur))
       ELSE SplitFrom(str, i + 1, Append(cur, str[i]), terms)

Split(str) == SplitFrom(str, 1, <<>>, <<>>)

\* str.count(term) for a non-empty term: scan from the left, and continue
\* after the end of each occurrence found.
RECURSIVE CountFrom(_, _, _)
CountFrom(text, term, i) ==
  IF i + Len(term) - 1 > Len(text)
  THEN 0
  ELSE IF SubSeq(text, i, i + Len(term) - 1) = term
       THEN 1 + CountFrom(text, term, i + Len(term))
       ELSE CountFrom(text, term, i + 1)

Count(text, term) == CountFrom(text, term, 1)

\* Mutant: every term of the query is counted once, however often the
\* query has it (for term in set(query_terms)).
RECURSIVE Score_DistinctTerms(_, _)
Score_DistinctTerms(text_lower, query_terms) ==
  IF query_terms = <<>>
  THEN 0
  ELSE LET term == Head(query_terms)
           rest == SelectSeq(Tail(query_terms), LAMBDA x : x # term)
       IN Count(text_lower, term) + Score_DistinctTerms(text_lower, rest)

\* for term in query_terms: score += text_lower.count(term)
RECURSIVE Score(_, _)
Score(text_lower, query_terms) ==
  IF query_terms = <<>>
  THEN 0
  ELSE Count(text_lower, Head(query_terms)) + Score(text_lower, Tail(query_terms))

\* text[:200]
SnippetLen == 200
Snippet(text) ==
  SubSeq(text, 1, IF Len(text) < SnippetLen THEN Len(text) ELSE SnippetLen)

\* The record of one document, with its score.
Scored(entry, query_terms) ==
  [document_id |-> entry.k,
   score |-> Score(Lower(entry.v), query_terms),
   snippet |-> Snippet(entry.v)]

\* Mutant: the test on the score is "score >= 0".
Results_KeepsZero(vs, query_terms) ==
  [i \in DOMAIN vs.documents |-> Scored(vs.documents[i], query_terms)]

\* The loop over documents.items(): the records of the documents of
\* positive score, in the dict's order.
Results(vs, query_terms) ==
  SelectSeq([i \in DOMAIN vs.documents |-> Scored(vs.documents[i], query_terms)],
            LAMBDA r : r.score > 0)

\* Insert r behind every record whose score is not smaller.
InsertByScore(sorted, r) ==
  LET before == SelectSeq(sorted, LAMBDA x : x.score >= r.score)
      after == SelectSeq(sorted, LAMBDA x : x.score < r.score)
  IN before \o <<r>> \o after

\* Mutant: sorted ascending and then reversed, so that records of equal
\* score come out in the opposite order.
RECURSIVE SortByScore_TiesReversed(_)
SortByScore_TiesReversed(results) ==
  IF results = <<>>
  THEN <<>>
  ELSE LET r == results[Len(results)]
           sorted == SortByScore_TiesReversed(SubSeq(results, 1, Len(results) - 1))
       IN SelectSeq(sorted, LAMBDA x : x.score > r.score) \o <<r>>
            \o SelectSeq(sorted, LAMBDA x : x.score <= r.score)

\* results.sort(key=score, reverse=True): stable, also when reversed.
RECURSIVE SortByScore(_)
SortByScore(results) ==
  IF results = <<>>
  THEN <<>>
  ELSE InsertByScore(SortByScore(SubSeq(results, 1, Len(results) - 1)),
                     results[Len(results)])

\* results[:top_k]: a negative top_k counts from the end.
Slice(results, top_k) ==
  LET n == Len(results)
      stop == IF top_k >= 0
              THEN (IF top_k < n THEN top_k ELSE n)
              ELSE (IF n + top_k > 0 THEN n + top_k ELSE 0)
  IN SubSeq(results, 1, stop)

\* search_documents
search_documents(vs, query, top_k) ==
  LET query_terms == Split(Lower(query))
  IN Slice(SortByScore(Results(vs, query_terms)), top_k)

\* get_document_text
get_document_text(vs, document_id) ==
  IF DictHas(vs.documents, document_id)
  THEN Some(DictGet(vs.documents, document_id))
  ELSE None

\* get_document_summary
get_document_summary(vs, document_id) == FnGet(vs.summaries, document_id)


\* ---- LLMService.generate_summary ----
\* A JSON value is a record tagged with its Python type (t): a str (s), an
\* int (n), a bool (b), None, a list (items) or a dict (d, a function on
\* its keys).

JStr(s) == [t |-> "str", s |-> s]
JNum(n) == [t |-> "int", n |-> n]
JBool(b) == [t |-> "bool", b |-> b]
JNull == [t |-> "NoneType"]
JList(items) == [t |-> "list", items |-> items]
JDict(d) == [t |-> "dict", d |-> d]

\* The fields of SummarySections.
SummaryFields ==
  { "title", "authors", "abstract", "problem_statement", "methodology",
    "key_results", "conclusion" }

\* str(n) for the ints of the inputs.
IntStr(n) == IF n = 0 THEN "0" ELSE IF n = 5 THEN "5" ELSE "int"

\* str(v).  The repr of a non-empty list or dict is not spelled out.
PyStr(v) ==
  CASE v.t = "str" -> v.s
    [] v.t = "int" -> IntStr(v.n)
    [] v.t = "bool" -> (IF v.b THEN "True" ELSE "False")
    [] v.t = "NoneType" -> "None"
    [] v.t = "list" -> (IF v.items = <<>> THEN "[]" ELSE "[...]")
    [] v.t = "dict" -> (IF DOMAIN v.d = {} THEN "{}" ELSE "{...}")

\* The truth value of v.
PyTruthy(v) ==
  CASE v.t = "str" -> v.s # ""
    [] v.t = "int" -> v.n # 0
    [] v.t = "bool" -> v.b
    [] v.t = "NoneType" -> FALSE
    [] v.t = "list" -> v.items # <<>>
    [] v.t = "dict" -> DOMAIN v.d # {}

\* ', '.join(str(v) for v in items)
RECURSIVE Join(_)
Join(items) ==
  IF items = <<>>
  THEN ""
  ELSE IF Len(items) = 1
  THEN PyStr(items[1])
  ELSE PyStr(items[1]) \o ", " \o Join(Tail(items))

\* Mutant: a value that is None is kept as it is, as the comment on the
\* last branch says ("Keep as is if already string or None").
normalize_summary_data_KeepsNone(data) ==
  [key \in DOMAIN data |->
     LET value == data[key]
     IN IF value.t = "list" THEN JStr(Join(value.items))
        ELSE IF value.t = "dict" THEN JStr(PyStr(value))
        ELSE IF value.t \in {"str", "NoneType"} THEN value
        ELSE IF PyTruthy(value) THEN JStr(PyStr(value))
        ELSE JStr("")]

\* _normalize_summary_data
normalize_summary_data(data) ==
  [key \in DOMAIN data |->
     LET value == data[key]
     IN IF value.t = "list" THEN JStr(Join(value.items))
        ELSE IF value.t = "dict" THEN JStr(PyStr(value))
        ELSE IF value.t = "str" THEN value
        ELSE IF PyTruthy(value) THEN JStr(PyStr(value))
        ELSE JStr("")]

\* SummarySections(**kw): the authors validator runs before the type
\* check; title and the five sections must be str, authors may be None, a
\* str or a list.  ok is FALSE for a ValidationError.
SummarySections(kw) ==
  LET authors == IF kw.authors.t = "list"
                 THEN JStr(Join(kw.authors.items))
                 ELSE kw.authors
  IN IF /\ \A f \in SummaryFields \ {"authors"} : kw[f].t = "str"
        /\ authors.t \in {"NoneType", "str", "list"}
     THEN [ok |-> TRUE, model |-> [f \in SummaryFields |->
                                     IF f = "authors" THEN authors ELSE kw[f]]]
     ELSE [ok |-> FALSE]

\* text.split('\n')[0]: the characters before the first newline.
RECURSIVE FirstLineFrom(_, _)
FirstLineFrom(text, i) ==
  IF i > Len(text) \/ text[i] = "\n"
  THEN ""
  ELSE text[i] \o FirstLineFrom(text, i + 1)

\* _generate_fallback_summary
generate_fallback_summary(text) ==
  SummarySections(
    [title |-> JStr(FirstLineFrom(text, 1)),
     authors |-> JStr("Authors not extracted"),
     abstract |-> JStr("Unable to generate abstract automatically. Please review the document."),
     problem_statement |-> JStr("Unable to extract problem statement. Please review the document."),
     methodology |-> JStr("Unable to extract methodology. Please review the document."),
     key_results |-> JStr("Unable to extract key results. Please review the document."),
     conclusion |-> JStr("Unable to extract conclusion. Please review the document.")]).model

\* The text of a response is a sequence of tokens: a code fence (three
\* backquotes), the word
\* json, a newline, a JSON document (doc, with the value it parses to), or
\* other text (junk).
Fence == [tok |-> "fence"]
JsonWord == [tok |-> "json"]
Newline == [tok |-> "\n"]
Doc(v) == [tok |-> "doc", v |-> v]
Junk == [tok |-> "junk"]

\* The index of the first fence of toks from i on, or Len(toks) + 1.
RECURSIVE NextFence(_, _)
NextFence(toks, i) ==
  IF i > Len(toks) \/ toks[i].tok = "fence" THEN i ELSE NextFence(toks, i + 1)

\* A text that starts with a fence is cut down to what stands between that
\* fence and the next one (split(fence)[1]), and loses a leading "json".
StripFence(toks) ==
  IF toks # <<>> /\ toks[1].tok = "fence"
  THEN LET inner == SubSeq(toks, 2, NextFence(toks, 2) - 1)
       IN IF inner # <<>> /\ inner[1].tok = "json" THEN Tail(inner) ELSE inner
  ELSE toks

\* str.strip(): without the white space at both ends.
RECURSIVE Strip(_)
Strip(toks) ==
  IF toks = <<>> THEN toks
  ELSE IF toks[1].tok = "\n" THEN Strip(Tail(toks))
  ELSE IF toks[Len(toks)].tok = "\n" THEN Strip(SubSeq(toks, 1, Len(toks) - 1))
  ELSE toks

\* json.loads: the value of the one document that is the whole text, or
\* None for a JSONDecodeError.
JsonLoads(toks) ==
  IF Len(toks) = 1 /\ toks[1].tok = "doc" THEN Some(toks[1].v) ELSE None

\* summary_data.get(f, default) for the seven fields.
SummaryKeywords(summary_data) ==
  [f \in SummaryFields |->
     IF f \in DOMAIN summary_data THEN summary_data[f]
     ELSE IF f = "title" THEN JStr("Unknown Title")
     ELSE IF f = "authors" THEN JStr("Unknown Authors")
     ELSE JStr("")]

\* Mutant: only the JSONDecodeError is handled; any other exception
\* reaches the caller.
generate_summary_OnlyDecodeError(text, outcome) ==
  IF outcome.kind = "raise"
  THEN [raised |-> TRUE, val |-> None]
  ELSE LET parsed == JsonLoads(Strip(StripFence(outcome.text)))
       IN IF parsed = None
          THEN [raised |-> FALSE, val |-> Some(generate_fallback_summary(text))]
          ELSE IF parsed[1].t # "dict"
          THEN [raised |-> TRUE, val |-> None]
          ELSE LET summary == SummarySections(
                                SummaryKeywords(normalize_summary_data(parsed[1].d)))
               IN IF summary.ok
                  THEN [raised |-> FALSE, val |-> Some(summary.model)]
                  ELSE [raised |-> TRUE, val |-> None]

\* generate_summary.  outcome is what generate_content and response.text
\* do: raise, or give a text.  raised tells whether an exception reaches
\* the caller, val is the value returned.
generate_summary(text, outcome) ==
  IF outcome.kind = "raise"
  THEN [raised |-> FALSE, val |-> Some(generate_fallback_summary(text))]
  ELSE LET parsed == JsonLoads(Strip(StripFence(outcome.text)))
       IN IF parsed = None
          THEN [raised |-> FALSE, val |-> Some(generate_fallback_summary(text))]
          ELSE IF parsed[1].t # "dict"
          THEN [raised |-> FALSE, val |-> Some(generate_fallback_summary(text))]
          ELSE LET summary == SummarySections(
                                SummaryKeywords(normalize_summary_data(parsed[1].d)))
               IN IF summary.ok
                  THEN [raised |-> FALSE, val |-> Some(summary.model)]
                  ELSE [raised |-> FALSE, val |-> Some(generate_fallback_summary(text))]

\* ---- LLMService.answer_question: the context ----

\* document_text[:3000]
ContextLen == 3000

\* Mutant: the slice is conversation_history[:3], the first three messages.
LastThree_FirstThree(conversation_history) ==
  SubSeq(conversation_history, 1,
         IF Len(conversation_history) > 3 THEN 3 ELSE Len(conversation_history))

\* conversation_history[-3:]
LastThree(conversation_history) ==
  SubSeq(conversation_history,
         IF Len(conversation_history) > 3 THEN Len(conversation_history) - 2 ELSE 1,
         Len(conversation_history))

\* f"{msg['role']}: {msg['content']}\n"
ContextLine(msg) == msg.role \o ": " \o msg.content \o "\n"

\* The context string of answer_question, as the sequence of the pieces it
\* is put together from; the document text gives one piece per character.
\* conversation_history is None or Some(list).
answer_context(document_text, conversation_history) ==
  LET head == <<"Document Content:\n">>
                \o SubSeq(document_text, 1,
                          IF Len(document_text) < ContextLen
                          THEN Len(document_text) ELSE ContextLen)
                \o <<"\n\n">>
  IN IF conversation_history # None /\ conversation_history[1] # <<>>
     THEN LET last == LastThree(conversation_history[1])
          IN head \o <<"Previous conversation:\n">>
                  \o [i \in DOMAIN last |-> ContextLine(last[i])]
     ELSE head

\* ask_question: request.conversation_history or [], given on as a list.
RequestHistory(supplied) == IF supplied = None THEN Some(<<>>) ELSE supplied

\* Mutant: get_conversation_history written with
\* conversations.setdefault(document_id, []), which makes the ledger it
\* did not find.
StoreAfterRead_SetDefault(vs, op, document_id) ==
  IF op = "get_conversation_history" /\ document_id \notin DOMAIN vs.conversations
  THEN [vs EXCEPT !.conversations = FnSet(vs.conversations, document_id, <<>>)]
  ELSE vs

\* The store after one of the reading methods (op) was called: none of
\* them assigns to a dict of the store; dict.get(key, default) and the
\* "in" test insert nothing.
StoreAfterRead(vs, op, document_id) == vs

\* Number of messages held over all ledgers.
RECURSIVE SumLen(_, _)
SumLen(f, S) ==
  IF S = {} THEN 0
  ELSE LET x == CHOOSE y \in S : TRUE IN Len(f[x]) + SumLen(f, S \ {x})
TotalMessages(vs) == SumLen(vs.conversations, DOMAIN vs.conversations)

\* --------------------------------------------------------------- handlers
\* Mutant: the answer is recorded before the question.
route_ask_question_AnswerFirst(vs, document_id, question, outcome, t1, t2) ==
  LET document == get_document(vs, document_id)
  IN IF document = None
     THEN [vs |-> vs, status |-> 404, called |-> FALSE]
     ELSE IF ~Truthy(outcome)
     THEN [vs |-> vs, status |-> 500, called |-> TRUE]
     ELSE LET r1 == add_conversation_message(vs, document_id, "assistant",
                                             outcome[1], t1)
              r2 == add_conversation_message(r1.vs, document_id, "user", question, t2)
          IN [vs |-> r2.vs, status |-> 200, called |-> TRUE]

\* Mutant: the question is recorded before the answerer is called, so a
\* failed call leaves it in the ledger.
route_ask_question_QuestionBeforeCall(vs, document_id, question, outcome, t1, t2) ==
  LET document == get_document(vs, document_id)
  IN IF document = None
     THEN [vs |-> vs, status |-> 404, called |-> FALSE]
     ELSE LET r1 == add_conversation_message(vs, document_id, "user", question, t1)
          IN IF ~Truthy(outcome)
             THEN [vs |-> r1.vs, status |-> 500, called |-> TRUE]
             ELSE [vs |-> add_conversation_message(r1.vs, document_id, "assistant",
                                                   outcome[1], t2).vs,
                   status |-> 200, called |-> TRUE]

\* Mutant: the handler does not look the document up first.
route_ask_question_NoLookup(vs, document_id, question, outcome, t1, t2) ==
  IF ~Truthy(outcome)
  THEN [vs |-> vs, status |-> 500, called |-> TRUE]
  ELSE LET r1 == add_conversation_message(vs, document_id, "user", question, t1)
           r2 == add_conversation_message(r1.vs, document_id, "assistant",
                                          outcome[1], t2)
       IN [vs |-> r2.vs, status |-> 200, called |-> TRUE]

\* POST /api/chat/ask.  outcome is what LLMService.answer_question returns
\* when it is called; t1 and t2 are the clock readings of the two appends.
route_ask_question(vs, document_id, question, outcome, t1, t2) ==
  LET document == get_document(vs, document_id)
  IN IF document = None
     THEN [vs |-> vs, status |-> 404, called |-> FALSE]
     ELSE IF ~Truthy(outcome)
     THEN [vs |-> vs, status |-> 500, called |-> TRUE]
     ELSE LET r1 == add_conversation_message(vs, document_id, "user", question, t1)
              r2 == add_conversation_message(r1.vs, document_id, "assistant",
                                             outcome[1], t2)
          IN [vs |-> r2.vs, status |-> 200, called |-> TRUE]

\* Mutant: the question is recorded when the request comes in, the answer
\* when the answerer has returned.
ask_question_step_QuestionAtStart(vs, stage, document_id, question, outcome, t1, t2) ==
  IF stage = "start"
  THEN IF get_document(vs, document_id) = None
       THEN [vs |-> vs, status |-> 404, suspended |-> FALSE]
       ELSE [vs |-> add_conversation_message(vs, document_id, "user", question, t1).vs,
             status |-> 0, suspended |-> TRUE]
  ELSE IF ~Truthy(outcome)
       THEN [vs |-> vs, status |-> 500, suspended |-> FALSE]
       ELSE [vs |-> add_conversation_message(vs, document_id, "assistant",
                                             outcome[1], t2).vs,
             status |-> 200, suspended |-> FALSE]

\* POST /api/chat/ask, taken as the two runs the event loop could make of
\* it if the awaited answerer gave up control: "start" runs up to
\* "await llm_service.answer_question(...)", "resume" from there to the
\* end.  suspended tells that the handler waits at the await.
ask_question_step(vs, stage, document_id, question, outcome, t1, t2) ==
  IF stage = "start"
  THEN IF get_document(vs, document_id) = None
       THEN [vs |-> vs, status |-> 404, suspended |-> FALSE]
       ELSE [vs |-> vs, status |-> 0, suspended |-> TRUE]
  ELSE IF ~Truthy(outcome)
       THEN [vs |-> vs, status |-> 500, suspended |-> FALSE]
       ELSE LET r1 == add_conversation_message(vs, document_id, "user", question, t1)
                r2 == add_conversation_message(r1.vs, document_id, "assistant",
                                               outcome[1], t2)
            IN [vs |-> r2.vs, status |-> 200, suspended |-> FALSE]

\* Mutant: the handler empties every ledger
\* (for key in conversations: conversations[key] = []).
route_clear_conversation_EveryLedger(vs, document_id) ==
  IF get_document(vs, document_id) = None
  THEN [vs |-> vs, status |-> 404]
  ELSE [vs |-> [vs EXCEPT !.conversations =
                  [x \in DOMAIN vs.conversations \cup {document_id} |-> <<>>]],
        status |-> 200]

\* Mutant: the handler empties a copy of the ledger, not the ledger.
route_clear_conversation_KeepsLedger(vs, document_id) ==
  IF get_document(vs, document_id) = None
  THEN [vs |-> vs, status |-> 404]
  ELSE [vs |-> vs, status |-> 200]

\* DELETE /api/chat/conversation/{document_id}
route_clear_conversation(vs, document_id) ==
  IF get_document(vs, document_id) = None
  THEN [vs |-> vs, status |-> 404]
  ELSE [vs |-> [vs EXCEPT !.conversations = FnSet(@, document_id, <<>>)],
        status |-> 200]

\* DELETE /api/upload/document/{document_id}
route_delete_document(vs, document_id) ==
  LET r == delete_document(vs, document_id)
  IN [vs |-> r.vs, status |-> IF ~r.ret THEN 404 ELSE 200]

\* POST /api/upload/.  valid is the result of validate_pdf, extracted the
\* result of extract_text (None on an exception), document_id the uuid4.
route_upload_pdf(vs, valid, document_id, extracted, summary, meta, t) ==
  IF ~valid
  THEN [vs |-> vs, status |-> 400, stored |-> FALSE]
  ELSE IF extracted = None \/ extracted[1] = <<>>
  THEN [vs |-> vs, status |-> 500, stored |-> FALSE]
  ELSE [vs |-> store_document(vs, document_id, extracted[1], summary, meta, t).vs,
        status |-> 200, stored |-> TRUE]

\* POST /api/upload/ with the summarizer in it: outcome is what the model
\* call of generate_summary does.  An exception out of generate_summary
\* and a summary that is None both end in a 500.  raised and summary are
\* what generate_summary gave.
route_upload_pdf_summarized(vs, document_id, text, outcome, meta, t) ==
  LET summary == generate_summary(text, outcome)
  IN IF summary.raised \/ summary.val = None
     THEN [vs |-> vs, status |-> 500, stored |-> FALSE,
           raised |-> summary.raised, summary |-> summary.val]
     ELSE LET r == route_upload_pdf(vs, TRUE, document_id, Some(text),
                                    summary.val[1], meta, t)
          IN [vs |-> r.vs, status |-> r.status, stored |-> r.stored,
              raised |-> summary.raised, summary |-> summary.val]

\* ------------------------------------------------------------------ Init
Init ==
  /\ vector_store = VectorStoreInit
  /\ now = 0
  /\ ret = [op |-> "init", id |-> 0]
  /\ appended = [id \in DocumentIds |-> <<>>]
  /\ live = {}
  /\ inserted = <<>>
  /\ pending = [r \in Requests |-> [stage |-> "idle", id |-> 0, raced |-> FALSE]]

\* Whether any of the four dicts has the key.
InAnyMap(vs, id) ==
  \/ DictHas(vs.documents, id)
  \/ id \in DOMAIN vs.summaries
  \/ id \in DOMAIN vs.metadata
  \/ id \in DOMAIN vs.conversations

\* --------------------------------------- direct calls of the store methods
\* Every call of datetime.now() reads a clock that has not gone backwards
\* since the last reading: t \in now..MaxClock, and now' = t.
Call_store_document ==
  \E id \in DocumentIds, in \in StoreInputs, t \in now..MaxClock :
    LET r == store_document(vector_store, id, in[1], in[2], in[3], t)
    IN /\ vector_store' = r.vs
       /\ now' = t
       /\ ret' = [op |-> "store_document", id |-> id, text |-> in[1],
                  summary |-> in[2], meta |-> in[3],
                  old |-> get_document_text(vector_store, id),
                  held |-> Len(get_conversation_history(vector_store, id)),
                  val |-> r.ret]
       /\ appended' = [appended EXCEPT ![id] = <<>>]
       /\ live' = IF r.ret THEN live \cup {id} ELSE live
       /\ inserted' = IF r.ret /\ id \notin live THEN Append(inserted, id) ELSE inserted
       /\ UNCHANGED pending

Call_get_document ==
  \E id \in DocumentIds :
    /\ ret' = [op |-> "get_document", id |-> id, val |-> get_document(vector_store, id)]
    /\ vector_store' = StoreAfterRead(vector_store, "get_document", id)
    /\ UNCHANGED << now, appended, live, inserted, pending >>

Call_get_document_text ==
  \E id \in DocumentIds :
    /\ ret' = [op |-> "get_document_text", id |-> id,
               val |-> get_document_text(vector_store, id)]
    /\ vector_store' = StoreAfterRead(vector_store, "get_document_text", id)
    /\ UNCHANGED << now, appended, live, inserted, pending >>

Call_get_document_summary ==
  \E id \in DocumentIds :
    /\ ret' = [op |-> "get_document_summary", id |-> id,
               val |-> get_document_summary(vector_store, id)]
    /\ vector_store' = StoreAfterRead(vector_store, "get_document_summary", id)
    /\ UNCHANGED << now, appended, live, inserted, pending >>

Call_add_conversation_message ==
  \E id \in DocumentIds, m \in MessageInputs, t \in now..MaxClock :
    /\ TotalMessages(vector_store) < MaxMessages
    /\ LET r == add_conversation_message(vector_store, id, m[1], m[2], t)
       IN /\ vector_store' = r.vs
          /\ ret' = [op |-> "add_conversation_message", id |-> id,
                     role |-> m[1], content |-> m[2], val |-> r.ret]
    /\ now' = t
    /\ appended' = [appended EXCEPT ![id] =
                      Append(@, [role |-> m[1], content |-> m[2]])]
    /\ UNCHANGED << live, inserted, pending >>

Call_list_documents ==
  /\ ret' = [op |-> "list_documents", id |-> 0, val |-> list_documents(vector_store)]
  /\ vector_store' = StoreAfterRead(vector_store, "list_documents", 0)
  /\ UNCHANGED << now, appended, live, inserted, pending >>

Call_get_conversation_history ==
  \E id \in DocumentIds :
    /\ ret' = [op |-> "get_conversation_history", id |-> id,
               val |-> get_conversation_history(vector_store, id)]
    /\ vector_store' = StoreAfterRead(vector_store, "get_conversation_history", id)
    /\ UNCHANGED << now, appended, live, inserted, pending >>

Call_delete_document ==
  \E id \in DocumentIds :
    LET r == delete_document(vector_store, id)
    IN /\ vector_store' = r.vs
       /\ ret' = [op |-> "delete_document", id |-> id,
                  had |-> InAnyMap(vector_store, id), val |-> r.ret]
       /\ appended' = [appended EXCEPT ![id] = <<>>]
       /\ live' = live \ {id}
       /\ inserted' = SelectSeq(inserted, LAMBDA x : x # id)
       /\ UNCHANGED pending
       /\ UNCHANGED now

\* ------------------------------------------------------------ HTTP requests
Req_ask_question ==
  \E id \in DocumentIds, q \in Questions, outcome \in AnswerOutcomes :
    \E t1 \in now..MaxClock :
      \E t2 \in t1..MaxClock :
        LET r == route_ask_question(vector_store, id, q, outcome, t1, t2)
        IN /\ r.status = 200 => TotalMessages(vector_store) + 2 <= MaxMessages
           /\ vector_store' = r.vs
           /\ now' = IF r.status = 200 THEN t2 ELSE now
           /\ ret' = [op |-> "ask_question", id |-> id, question |-> q,
                      called |-> r.called,
                      answer |-> IF r.called THEN outcome ELSE None,
                      val |-> r.status]
           /\ appended' = IF r.status = 200
                          THEN [appended EXCEPT ![id] =
                                  @ \o << [role |-> "user", content |-> q],
                                          [role |-> "assistant", content |-> outcome[1]] >>]
                          ELSE appended
           /\ UNCHANGED << live, inserted, pending >>

Req_clear_conversation ==
  \E id \in DocumentIds :
    LET r == route_clear_conversation(vector_store, id)
    IN /\ vector_store' = r.vs
       /\ ret' = [op |-> "clear_conversation", id |-> id,
                  held |-> Len(get_conversation_history(vector_store, id)),
                  val |-> r.status]
       /\ appended' = IF r.status = 200 THEN [appended EXCEPT ![id] = <<>>]
                      ELSE appended
       /\ UNCHANGED << now, live, inserted, pending >>

Req_delete_document ==
  \E id \in DocumentIds :
    LET r == route_delete_document(vector_store, id)
    IN /\ vector_store' = r.vs
       /\ ret' = [op |-> "route_delete_document", id |-> id,
                  had |-> InAnyMap(vector_store, id), val |-> r.status]
       /\ appended' = [appended EXCEPT ![id] = <<>>]
       /\ live' = live \ {id}
       /\ inserted' = SelectSeq(inserted, LAMBDA x : x # id)
       /\ UNCHANGED pending
       /\ UNCHANGED now

\* uuid4 produces an id that is not in the store.
Req_upload_pdf ==
  \E valid \in BOOLEAN, in \in UploadInputs,
     id \in { d \in DocumentIds : ~InAnyMap(vector_store, d) },
     extracted_ok \in BOOLEAN, t \in now..MaxClock :
    LET extracted == IF extracted_ok THEN Some(in[1]) ELSE None
        r == route_upload_pdf(vector_store, valid, id, extracted, in[2], in[3], t)
    IN /\ vector_store' = r.vs
       /\ now' = IF r.stored THEN t ELSE now
       /\ ret' = IF r.stored
                 THEN [op |-> "upload_pdf", id |-> id, text |-> in[1],
                       summary |-> in[2], meta |-> in[3], val |-> r.status]
                 ELSE [op |-> "upload_pdf", id |-> 0, val |-> r.status]
       /\ appended' = IF r.stored THEN [appended EXCEPT ![id] = <<>>] ELSE appended
       /\ live' = IF r.stored THEN live \cup {id} ELSE live
       /\ inserted' = IF r.stored /\ id \notin live THEN Append(inserted, id) ELSE inserted
       /\ UNCHANGED pending

Next ==
  \/ Call_store_document
  \/ Call_get_document
  \/ Call_get_document_text
  \/ Call_get_document_summary
  \/ Call_add_conversation_message
  \/ Call_get_conversation_history
  \/ Call_list_documents
  \/ Call_delete_document
  \/ Req_ask_question
  \/ Req_clear_conversation
  \/ Req_delete_document
  \/ Req_upload_pdf

Spec == Init /\ [][Next]_vars

\* ---- The search over stores of up to three documents ----

SearchIds == { 1, 2, 3 }

SearchTexts ==
  { <<"a", "a", "a">>, <<"a", "b">>, <<"B", "a">>, <<"b">> }

SearchQueries ==
  { <<>>,
    <<" ", "\t">>,
    <<"c">>,
    <<"a">>,
    <<"a", "a", " ", "A", "a">>,
    <<"a", " ", "a">>,
    <<" ", "A", " ", " ", "b", "\n">>,
    <<"b", "a", " ", "a">> }

TopKs == { 0 - 2, 0 - 1, 0, 1, 2, 3 }

\* store_document of one of the texts, at the time the clock shows.
Fill_store_document ==
  \E id \in SearchIds, text \in SearchTexts :
    LET in == CHOOSE x \in UploadInputs : TRUE
        r == store_document(vector_store, id, text, in[2], in[3], now)
    IN /\ vector_store' = r.vs
       /\ ret' = [op |-> "store_document", id |-> id, text |-> text,
                  summary |-> in[2], meta |-> in[3],
                  old |-> get_document_text(vector_store, id),
                  held |-> 0,
                  val |-> r.ret]
       /\ live' = live \cup {id}
       /\ inserted' = IF id \notin live THEN Append(inserted, id) ELSE inserted
       /\ UNCHANGED pending
       /\ UNCHANGED << now, appended >>

Call_search_documents ==
  \E query \in SearchQueries, top_k \in TopKs :
    /\ ret' = [op |-> "search_documents", id |-> 0, query |-> query,
               top_k |-> top_k,
               val |-> search_documents(vector_store, query, top_k)]
    /\ vector_store' = StoreAfterRead(vector_store, "search_documents", 0)
    /\ UNCHANGED << now, appended, live, inserted, pending >>

SearchInit ==
  /\ vector_store = VectorStoreInit
  /\ now = 0
  /\ ret = [op |-> "init", id |-> 0]
  /\ appended = [id \in SearchIds |-> <<>>]
  /\ live = {}
  /\ inserted = <<>>
  /\ pending = [r \in Requests |-> [stage |-> "idle", id |-> 0, raced |-> FALSE]]

SearchNext ==
  \/ Fill_store_document
  \/ Call_search_documents
  \/ Call_get_document
  \/ Call_get_document_text
  \/ Call_get_document_summary
  \/ Call_list_documents
  \/ Call_get_conversation_history

SearchSpec == SearchInit /\ [][SearchNext]_vars

\* ---- The upload flow with the summarizer ----

\* Extracted texts: with a title line, without a newline, and starting
\* with a newline as extract_text writes it ("\n--- Page 1 ---\n...").
SummaryTexts ==
  { <<"T", "\n", "x">>, <<"a", "b">>, <<"\n", "-", "\n", "x">> }

\* A JSON object as the prompt asks for it.
FullObject ==
  [title |-> JStr("T1"), authors |-> JStr("A, B"), abstract |-> JStr("ab"),
   problem_statement |-> JStr("ps"), methodology |-> JStr("me"),
   key_results |-> JStr("kr"), conclusion |-> JStr("co")]

\* The JSON objects the model answers with: the full one, and the full one
\* with one field changed, missing or added.
SummaryObjects ==
  { FullObject, <<>> }
  \cup { [FullObject EXCEPT !.authors = v] :
           v \in { JList(<<JStr("A"), JStr("B")>>),
                   JList(<<JStr("A"), JStr("B"), JStr("C")>>),
                   JList(<<JStr("A"), JNum(5)>>),
                   JList(<<>>), JNull, JNum(5), JNum(0), JDict(<<>>) } }
  \cup { [FullObject EXCEPT !.title = v] :
           v \in { JNull, JNum(5), JBool(FALSE), JList(<<JStr("T"), JStr("U")>>) } }
  \cup { [FullObject EXCEPT !.abstract = v] :
           v \in { JStr(""), JDict(<<>>), JDict([k |-> JStr("v")]), JBool(TRUE) } }
  \cup { [f \in DOMAIN FullObject \ {g} |-> FullObject[f]] :
           g \in {"title", "authors", "conclusion"} }
  \cup { [f \in DOMAIN FullObject \cup {"keywords"} |->
            IF f = "keywords" THEN JList(<<JStr("k")>>) ELSE FullObject[f]] }

\* The texts that carry the object o and parse: o alone, and o in a code
\* fence with and without the word json.
ResponsesOf(o) ==
  { <<Doc(JDict(o))>>,
    <<Fence, JsonWord, Newline, Doc(JDict(o)), Newline, Fence>>,
    <<Fence, Newline, Doc(JDict(o)), Newline, Fence>> }

\* What generate_content and response.text do: raise, or give a text that
\* is a JSON object, JSON that is no object, or no JSON.
ModelOutcomes ==
  { [kind |-> "raise", text |-> <<>>] }
  \cup { [kind |-> "text", text |-> <<Doc(JDict(o))>>] : o \in SummaryObjects }
  \cup { [kind |-> "text", text |-> x] :
           x \in ResponsesOf(FullObject)
                 \cup ResponsesOf([FullObject EXCEPT
                                     !.authors = JList(<<JStr("A"), JStr("B")>>)]) }
  \cup { [kind |-> "text", text |-> <<Doc(v)>>] :
           v \in { JList(<<>>), JList(<<JStr("A")>>), JStr("s"), JNum(5), JNull,
                   JBool(TRUE) } }
  \cup { [kind |-> "text", text |-> x] :
           x \in { <<>>, <<Junk>>, <<Junk, Doc(JDict(FullObject))>>,
                   <<Doc(JDict(FullObject)), Junk>>,
                   <<Fence, Junk, Newline, Doc(JDict(FullObject)), Newline, Fence>>,
                   <<Fence, JsonWord, Newline, Junk, Fence>>,
                   <<Fence, JsonWord>> } }

Req_upload_pdf_summarized ==
  \E id \in { d \in DocumentIds : ~InAnyMap(vector_store, d) },
     text \in SummaryTexts, outcome \in ModelOutcomes :
    LET in == CHOOSE x \in UploadInputs : TRUE
        r == route_upload_pdf_summarized(vector_store, id, text, outcome, in[3], now)
    IN /\ vector_store' = r.vs
       /\ ret' = [op |-> "upload_pdf", id |-> id, text |-> text,
                  outcome |-> outcome, raised |-> r.raised,
                  summary |-> r.summary, val |-> r.status]
       /\ appended' = IF r.stored THEN [appended EXCEPT ![id] = <<>>] ELSE appended
       /\ live' = IF r.stored THEN live \cup {id} ELSE live
       /\ inserted' = IF r.stored /\ id \notin live THEN Append(inserted, id) ELSE inserted
       /\ UNCHANGED pending
       /\ UNCHANGED now

SummaryNext ==
  \/ Req_upload_pdf_summarized
  \/ Call_get_document_summary
  \/ Req_delete_document

SummarySpec == Init /\ [][SummaryNext]_vars

\* ---- store_document with an internal error ----

\* The statements of store_document at which an exception may arise.
FailPoints == 1..5

\* The ids whose store may fail; every other id has whole records only.
FailIds == { 1 }

Call_store_document_failing ==
  \E id \in FailIds, in \in StoreInputs, fail_at \in FailPoints,
     t \in now..MaxClock :
    LET r == store_document_failing(vector_store, id, in[1], in[2], in[3], t, fail_at)
    IN /\ vector_store' = r.vs
       /\ now' = t
       /\ ret' = [op |-> "store_document", id |-> id, text |-> in[1],
                  summary |-> in[2], meta |-> in[3],
                  old |-> get_document_text(vector_store, id),
                  held |-> Len(get_conversation_history(vector_store, id)),
                  fail_at |-> fail_at,
                  val |-> r.ret]
       /\ UNCHANGED << appended, live, inserted, pending >>

FailNext ==
  \/ Call_store_document
  \/ Call_store_document_failing
  \/ Call_get_document
  \/ Call_delete_document

FailSpec == Init /\ [][FailNext]_vars

\* ---- The request handlers, with asks that wait for the answerer ----

\* An ask request comes in and runs up to its await.
Ask_start ==
  \E r \in Requests, id \in DocumentIds :
    /\ pending[r].stage = "idle"
    /\ LET s == ask_question_step(vector_store, "start", id, QuestionOf(r),
                                  None, now, now)
       IN /\ vector_store' = s.vs
          /\ pending' = [pending EXCEPT ![r] =
                           [stage |-> IF s.suspended THEN "awaiting" ELSE "done",
                            id |-> id, raced |-> FALSE]]
          /\ ret' = [op |-> "ask_start", id |-> id, request |-> r, val |-> s.status]
    /\ UNCHANGED << now, appended, live, inserted >>

\* The answerer has returned to a waiting ask, with the answer to its
\* question or with None.
Ask_resume ==
  \E r \in Requests, answered \in BOOLEAN, t1 \in now..MaxClock :
    \E t2 \in t1..MaxClock :
      /\ pending[r].stage = "awaiting"
      /\ LET id == pending[r].id
             question == QuestionOf(r)
             outcome == IF answered THEN Some(AnswerTo(question)) ELSE None
             s == ask_question_step(vector_store, "resume", id, question,
                                    outcome, t1, t2)
             others == { x \in Requests \ {r} :
                           pending[x].stage = "awaiting" /\ pending[x].id = id }
         IN /\ vector_store' = s.vs
            /\ now' = IF s.status = 200 THEN t2 ELSE now
            /\ pending' = [pending EXCEPT ![r] =
                             [stage |-> "done", id |-> id,
                              raced |-> s.status = 200 /\ others # {}]]
            /\ ret' = [op |-> "ask_question", id |-> id, question |-> question,
                       called |-> TRUE, answer |-> outcome, val |-> s.status]
            /\ appended' = IF s.status = 200
                           THEN [appended EXCEPT ![id] =
                                   @ \o << [role |-> "user", content |-> question],
                                           [role |-> "assistant", content |-> outcome[1]] >>]
                           ELSE appended
      /\ UNCHANGED << live, inserted >>

HandlerNext ==
  \/ Req_upload_pdf
  \/ Ask_start
  \/ Ask_resume
  \/ Req_clear_conversation
  \/ Req_delete_document

HandlerSpec == Init /\ [][HandlerNext]_vars

\* ---- The context of the answerer ----

\* The longest conversation history a request supplies.
MaxHistory == 4

\* The messages of a supplied history.
HistoryMessages ==
  { [role |-> "user", content |-> "q1"],
    [role |-> "assistant", content |-> "a1"],
    [role |-> "user", content |-> "q2"] }

\* The histories supplied: none, or a list of up to MaxHistory messages.
SuppliedHistories ==
  { None } \cup { Some(h) : h \in UNION { [1..n -> HistoryMessages] : n \in 0..MaxHistory } }

\* answer_question is called by the ask handler (with the request's
\* history, or [] for none) or directly (where the history may be None).
Call_answer_question ==
  \E supplied \in SuppliedHistories, by_handler \in BOOLEAN,
     text \in { <<"a", "b">>, <<>> } :
    /\ ret' = [op |-> "answer_question", id |-> 0, supplied |-> supplied,
               by_handler |-> by_handler, text |-> text,
               context |-> answer_context(text, IF by_handler
                                                THEN RequestHistory(supplied)
                                                ELSE supplied)]
    /\ UNCHANGED << vector_store, now, appended, live, inserted, pending >>

ContextNext == Call_answer_question

ContextSpec == Init /\ [][ContextNext]_vars

\* ================================================================= claims
\* The (role, content) pairs of a ledger, in ledger order.
RolesAndContents(h) ==
  [i \in 1..Len(h) |-> [role |-> h[i].role, content |-> h[i].content]]

\* The step stores a document under id (directly or by an upload).
StoresId(id) == ret'.op \in {"store_document", "upload_pdf"} /\ ret'.id = id

\* C1: every document id is a key of all four dicts (documents, summaries,
\* metadata, conversations) or of none of them.
C1_AllFourOrNone ==
  \A id \in DocumentIds :
    LET a == DictHas(vector_store.documents, id)
        b == id \in DOMAIN vector_store.summaries
        c == id \in DOMAIN vector_store.metadata
        d == id \in DOMAIN vector_store.conversations
    IN (a /\ b /\ c /\ d) \/ (~a /\ ~b /\ ~c /\ ~d)

\* C2: right after store_document(id, T, S, M) has returned True,
\* get_document(id) is the view {id, T, S, M'}, where M' has the keys of M
\* plus stored_at and document_id, document_id is id, and every other key
\* of M keeps its value.
C2_StoreThenGet ==
  (ret.op = "store_document" /\ ret.val = TRUE) =>
    LET got == get_document(vector_store, ret.id)
    IN /\ got # None
       /\ got[1].document_id = ret.id
       /\ got[1].text = ret.text
       /\ got[1].summary = Some(ret.summary)
       /\ got[1].metadata # None
       /\ LET m == got[1].metadata[1]
          IN /\ DOMAIN m = DOMAIN ret.meta \cup {"stored_at", "document_id"}
             /\ m.document_id = ret.id
             /\ m.stored_at = now
             /\ \A key \in DOMAIN ret.meta \ {"stored_at", "document_id"} :
                  m[key] = ret.meta[key]

\* C2 witness: a store whose metadata argument carried its own document_id,
\* with two documents in the store.
C2_Witness ==
  /\ ret.op = "store_document"
  /\ ret.val = TRUE
  /\ "document_id" \in DOMAIN ret.meta
  /\ ret.meta.document_id # ret.id
  /\ Len(vector_store.documents) = 2

\* C3: when delete_document(id) has returned, get_document(id) is None, and
\* an id whose get_document is None stays so in every step that is not a
\* store of that id.
C3_DeletedStaysAbsent ==
  /\ [](ret.op \in {"delete_document", "route_delete_document"}
          => get_document(vector_store, ret.id) = None)
  /\ [][\A id \in DocumentIds :
          (get_document(vector_store, id) = None /\ ~StoresId(id))
            => get_document(vector_store', id) = None]_vars

\* C3 witness: a delete of an id that was in the store.
C3_Witness ==
  /\ ret.op = "delete_document"
  /\ ret.had
  /\ get_document(vector_store, ret.id) = None

\* C4: delete_document returns True exactly when one of the four dicts held
\* the id before the call, and the delete endpoint answers 404 otherwise.
C4_DeleteReportsRemoval ==
  /\ ret.op = "delete_document" => (ret.val = ret.had)
  /\ ret.op = "route_delete_document" => ((ret.val = 404) = ~ret.had)

\* C5: for every stored document, get_conversation_history is the sequence
\* of (role, content) appended since the document was last stored or
\* cleared, in the order of the appends.
C5_HistoryIsAppendLog ==
  \A id \in DictKeys(vector_store.documents) :
    RolesAndContents(get_conversation_history(vector_store, id)) = appended[id]

\* C5 witness: a stored document with two different messages appended.
C5_Witness ==
  \E id \in DictKeys(vector_store.documents) :
    /\ Len(appended[id]) >= 2
    /\ appended[id][1] # appended[id][2]

\* C6: an ask whose answerer returns an answer (a non-empty string) appends
\* exactly two messages to the ledger of its document, the user question
\* and then the assistant answer, and leaves the other ledgers as they were.
C6_AskAppendsQuestionThenAnswer ==
  [][(ret'.op = "ask_question" /\ ret'.called /\ Truthy(ret'.answer)) =>
       LET id == ret'.id
           old == get_conversation_history(vector_store, id)
           new == get_conversation_history(vector_store', id)
       IN /\ ret'.val = 200
          /\ Len(new) = Len(old) + 2
          /\ SubSeq(new, 1, Len(old)) = old
          /\ new[Len(old) + 1].role = "user"
          /\ new[Len(old) + 1].content = ret'.question
          /\ new[Len(old) + 2].role = "assistant"
          /\ new[Len(old) + 2].content = ret'.answer[1]
          /\ \A other \in DocumentIds \ {id} :
               get_conversation_history(vector_store', other)
                 = get_conversation_history(vector_store, other)]_vars

\* C6 witness: an answered ask.
C6_Witness ==
  /\ ret.op = "ask_question"
  /\ ret.val = 200
  /\ Len(get_conversation_history(vector_store, ret.id)) = 2

\* C7: an ask whose answerer returns no answer (None, or the empty string)
\* ends in an error and leaves every ledger as it was.
C7_FailedAskLeavesLedgers ==
  [][(ret'.op = "ask_question" /\ ret'.called /\ ~Truthy(ret'.answer)) =>
       /\ ret'.val = 500
       /\ vector_store'.conversations = vector_store.conversations]_vars

\* C7 witness: a failed ask on a document whose ledger holds a message.
C7_Witness ==
  /\ ret.op = "ask_question"
  /\ ret.called
  /\ ret.answer = None
  /\ ret.val = 500
  /\ Len(get_conversation_history(vector_store, ret.id)) > 0

\* C8: an ask on an id that has no stored document answers 404 and changes
\* nothing; an ask that changes a ledger does so for an id whose document
\* is stored before and after the step.
C8_AskNeverWritesForAbsent ==
  [][ret'.op = "ask_question" =>
       /\ get_document(vector_store, ret'.id) = None
            => (ret'.val = 404 /\ vector_store' = vector_store)
       /\ vector_store'.conversations # vector_store.conversations
            => /\ get_document(vector_store, ret'.id) # None
               /\ get_document(vector_store', ret'.id) # None]_vars

\* C8 witness: an ask answered 404 for an id without a document, while
\* another document is stored.
C8_Witness ==
  /\ ret.op = "ask_question"
  /\ ret.val = 404
  /\ ret.id \notin live
  /\ live # {}

\* C9: for every id whose get_document is None, get_conversation_history
\* is the empty sequence.
C9_AbsentHasEmptyHistory ==
  \A id \in DocumentIds :
    get_document(vector_store, id) = None
      => get_conversation_history(vector_store, id) = <<>>

\* C10: for every id never stored, or deleted since its last store,
\* get_document, get_document_text and get_document_summary are None, and
\* a call of one of them returns None and leaves the store as it was.
C10_AbsentReadsReturnNone ==
  /\ [](\A id \in DocumentIds \ live :
          /\ get_document(vector_store, id) = None
          /\ get_document_text(vector_store, id) = None
          /\ get_document_summary(vector_store, id) = None)
  /\ [][(/\ ret'.op \in {"get_document", "get_document_text", "get_document_summary"}
         /\ ret'.id \notin live)
          => (ret'.val = None /\ vector_store' = vector_store)]_vars

\* C10 witness: a read of the summary of an id that is not stored but still
\* has a ledger, while another document is stored.
C10_Witness ==
  /\ ret.op = "get_document_summary"
  /\ ret.id \notin live
  /\ ret.val = None
  /\ ret.id \in DOMAIN vector_store.conversations
  /\ live # {}

\* C11: when the clear-conversation request for a stored document has
\* completed, get_conversation_history of that document is empty.
C11_ClearEmptiesLedger ==
  (ret.op = "clear_conversation" /\ ret.val = 200)
    => get_conversation_history(vector_store, ret.id) = <<>>

\* C11 witness: a completed clear of a ledger that held two messages.
C11_Witness ==
  /\ ret.op = "clear_conversation"
  /\ ret.val = 200
  /\ ret.held = 2

\* old is new without its last n messages.
GrewBy(old, new, n) == Len(new) = Len(old) + n /\ SubSeq(new, 1, Len(old)) = old

\* C12: in every step each ledger stays as it is, or keeps all its messages
\* (content, role, timestamp, position) and gets new ones at its end, one
\* per call of add_conversation_message (one for a direct call, the two
\* consecutive calls of an answered ask), or becomes the empty ledger by a
\* store or a clear, or goes with its document by a delete.
C12_LedgerAppendOrClear ==
  [][\A id \in DocumentIds :
       LET old == get_conversation_history(vector_store, id)
           new == get_conversation_history(vector_store', id)
       IN \/ new = old
          \/ ret'.op = "add_conversation_message" /\ GrewBy(old, new, 1)
          \/ ret'.op = "ask_question" /\ GrewBy(old, new, 2)
          \/ /\ new = <<>>
             /\ ret'.op \in {"store_document", "clear_conversation",
                             "delete_document", "route_delete_document"}]_vars

\* C12 witness: a message appended to a ledger that already held one.
C12_Witness ==
  /\ ret.op = "add_conversation_message"
  /\ Len(get_conversation_history(vector_store, ret.id)) = 2

\* C17: list_documents returns one metadata record per stored and not
\* deleted id, each id once however often it was stored, in the order in
\* which the ids entered the store.
C17_ListOnePerStoredId ==
  ret.op = "list_documents" =>
    /\ Len(ret.val) = Cardinality(live)
    /\ Len(ret.val) = Len(inserted)
    /\ \A i \in DOMAIN ret.val :
         /\ ret.val[i].document_id = inserted[i]
         /\ Some(ret.val[i]) = get_document(vector_store, inserted[i])[1].metadata
    /\ \A i, j \in DOMAIN ret.val :
         ret.val[i].document_id = ret.val[j].document_id => i = j

\* C17 witness: a listing of two documents whose first was stored again
\* after the second (its record carries the later time).
C17_Witness ==
  /\ ret.op = "list_documents"
  /\ Len(ret.val) = 2
  /\ ret.val[1].stored_at > ret.val[2].stored_at

\* C18: store_document succeeds for a stored id as for a new one; afterwards
\* the id has the new text, the new summary and the new metadata (no key left
\* of the old one), and an empty ledger.
C18_RestoreReplacesAndResets ==
  ret.op = "store_document" =>
    /\ ret.val = TRUE
    /\ get_document_text(vector_store, ret.id) = Some(ret.text)
    /\ get_document_summary(vector_store, ret.id) = Some(ret.summary)
    /\ ret.id \in DOMAIN vector_store.metadata
    /\ LET m == vector_store.metadata[ret.id]
       IN /\ DOMAIN m = DOMAIN ret.meta \cup {"stored_at", "document_id"}
          /\ \A key \in DOMAIN ret.meta \ {"stored_at", "document_id"} :
               m[key] = ret.meta[key]
    /\ get_conversation_history(vector_store, ret.id) = <<>>

\* C18 witness: a store over a document with another text and a ledger of
\* two messages.
C18_Witness ==
  /\ ret.op = "store_document"
  /\ ret.old # None
  /\ ret.old # Some(ret.text)
  /\ ret.held = 2

\* C19: the stored metadata of every stored id has stored_at, a reading of
\* the clock, and document_id, the id it is stored under.
C19_MetadataCarriesIdAndTime ==
  \A id \in DictKeys(vector_store.documents) :
    /\ id \in DOMAIN vector_store.metadata
    /\ {"stored_at", "document_id"} \subseteq DOMAIN vector_store.metadata[id]
    /\ vector_store.metadata[id].document_id = id
    /\ vector_store.metadata[id].stored_at \in 0..now

\* C19 witness: a store whose metadata came with a document_id and a
\* stored_at of its own.
C19_Witness ==
  /\ ret.op = "store_document"
  /\ {"stored_at", "document_id"} \subseteq DOMAIN ret.meta
  /\ ret.meta.document_id # ret.id
  /\ ret.meta.stored_at \notin 0..now

\* The timestamps of a ledger, in ledger order.
Timestamps(h) == [i \in DOMAIN h |-> h[i].timestamp]

\* C20: the clock never goes back; the timestamps of every ledger are
\* non-decreasing in ledger order; the timestamp of an appended message is
\* the reading of the clock at the append, which is also the value returned.
C20_TimestampsFollowClock ==
  /\ [](\A id \in DOMAIN vector_store.conversations :
          LET ts == Timestamps(vector_store.conversations[id])
          IN \A i, j \in DOMAIN ts : i <= j => ts[i] <= ts[j])
  /\ [][/\ now' >= now
        /\ ret'.op = "add_conversation_message" =>
             LET h == vector_store'.conversations[ret'.id]
             IN /\ h[Len(h)].timestamp = now'
                /\ ret'.val = Some(now')
        /\ (ret'.op = "ask_question" /\ ret'.val = 200) =>
             LET h == vector_store'.conversations[ret'.id]
             IN /\ h[Len(h)].timestamp = now'
                /\ h[Len(h) - 1].timestamp \in now..now']_vars

\* C20 witness: a ledger of two messages appended at different times.
C20_Witness ==
  /\ ret.op = "add_conversation_message"
  /\ \E id \in DOMAIN vector_store.conversations :
       LET h == vector_store.conversations[id]
       IN Len(h) = 2 /\ h[1].timestamp < h[2].timestamp

\* The places where term occurs in text.
Occurrences(text, term) ==
  { i \in 1..(Len(text) - Len(term) + 1) : SubSeq(text, i, i + Len(term) - 1) = term }

\* The largest number of occurrences of term in text no two of which
\* share a character.
DisjointOccurrences(text, term) ==
  LET fits == { P \in SUBSET Occurrences(text, term) :
                  \A i, j \in P : i < j => j - i >= Len(term) }
  IN CHOOSE n \in 0..Len(text) :
       /\ \E P \in fits : Cardinality(P) = n
       /\ \A P \in fits : Cardinality(P) <= n

\* The terms of a query, each as the pair of its first and last place:
\* the maximal runs without a space. A term the query has twice is two pairs.
TermPlaces(str) ==
  { p \in (1..Len(str)) \X (1..Len(str)) :
      /\ p[1] <= p[2]
      /\ \A i \in p[1]..p[2] : ~IsSpace(str[i])
      /\ p[1] = 1 \/ IsSpace(str[p[1] - 1])
      /\ p[2] = Len(str) \/ IsSpace(str[p[2] + 1]) }

\* The sum of f over the set S.
RECURSIVE SumOver(_, _)
SumOver(f(_), S) ==
  IF S = {} THEN 0
  ELSE LET x == CHOOSE y \in S : TRUE IN f(x) + SumOver(f, S \ {x})

\* The score of a text for a query, every occurrence counted.
ScoreOfAllOccurrences(text, query) ==
  LET q == Lower(query)
      PerTerm(p) == Cardinality(Occurrences(Lower(text), SubSeq(q, p[1], p[2])))
  IN SumOver(PerTerm, TermPlaces(q))

\* The score of a text for a query, the occurrences counted that do not
\* overlap.
ScoreOfDisjointOccurrences(text, query) ==
  LET q == Lower(query)
      PerTerm(p) == DisjointOccurrences(Lower(text), SubSeq(q, p[1], p[2]))
  IN SumOver(PerTerm, TermPlaces(q))

\* C13 as stated: the score reported for a document is the sum, over the
\* terms of the lower-cased query with repetition, of the number of
\* occurrences of the term as a substring of the lower-cased text.
C13_ScoreCountsEveryOccurrence ==
  ret.op = "search_documents" =>
    \A i \in DOMAIN ret.val :
      ret.val[i].score =
        ScoreOfAllOccurrences(DictGet(vector_store.documents, ret.val[i].document_id),
                              ret.query)

\* C13 amended: the score reported for a document is the sum, over the
\* terms of the lower-cased query with repetition, of the number of
\* non-overlapping occurrences of the term in the lower-cased text; and a
\* document is reported, when top_k leaves room for all, exactly if that
\* sum is positive.
C13_ScoreCountsDisjointOccurrences ==
  ret.op = "search_documents" =>
    /\ \A i \in DOMAIN ret.val :
         /\ DictHas(vector_store.documents, ret.val[i].document_id)
         /\ ret.val[i].score =
              ScoreOfDisjointOccurrences(
                DictGet(vector_store.documents, ret.val[i].document_id), ret.query)
    /\ ret.top_k >= Cardinality(live) =>
         { ret.val[i].document_id : i \in DOMAIN ret.val } =
           { id \in live :
               ScoreOfDisjointOccurrences(DictGet(vector_store.documents, id),
                                          ret.query) > 0 }

\* C13 witness: a query with the same term twice, once in upper case,
\* whose occurrences in a text overlap: two places each time, one counted.
C13_Witness ==
  /\ ret.op = "search_documents"
  /\ ret.query = <<"a", "a", " ", "A", "a">>
  /\ \E i \in DOMAIN ret.val :
       /\ ret.val[i].snippet = <<"a", "a", "a">>
       /\ ret.val[i].score = 2

\* The score of a stored document for the query of the last search.
ScoreOf(id) ==
  ScoreOfDisjointOccurrences(DictGet(vector_store.documents, id), ret.query)

\* The place of a stored id in the order of insertion.
PlaceOf(id) == CHOOSE i \in DOMAIN inserted : inserted[i] = id

\* Document a is ranked before document b: by the higher score, and at
\* equal scores by the earlier insertion.
RankedBefore(a, b) ==
  \/ ScoreOf(a) > ScoreOf(b)
  \/ ScoreOf(a) = ScoreOf(b) /\ PlaceOf(a) < PlaceOf(b)

\* C14: for top_k >= 1 the result has min(top_k, n) entries, n the number
\* of documents of positive score; they are documents of positive score,
\* each ranked before the next and before every document of positive score
\* left out, where the higher score ranks first and at equal scores the
\* document inserted first.
C14_TopKByScoreThenInsertion ==
  (ret.op = "search_documents" /\ ret.top_k >= 1) =>
    LET positive == { id \in live : ScoreOf(id) > 0 }
        n == Cardinality(positive)
        returned == { ret.val[i].document_id : i \in DOMAIN ret.val }
    IN /\ Len(ret.val) = IF ret.top_k < n THEN ret.top_k ELSE n
       /\ returned \subseteq positive
       /\ \A i, j \in DOMAIN ret.val :
            i < j => RankedBefore(ret.val[i].document_id, ret.val[j].document_id)
       /\ \A a \in returned, b \in positive \ returned : RankedBefore(a, b)

\* C14 witness: three documents of the same positive score and top_k = 2;
\* the two inserted first are returned, and they were not inserted in the
\* order of their ids.
C14_Witness ==
  /\ ret.op = "search_documents"
  /\ ret.top_k = 2
  /\ Cardinality(live) = 3
  /\ \A id \in live : ScoreOf(id) = 2
  /\ Len(ret.val) = 2
  /\ ret.val[1].document_id > ret.val[2].document_id

\* C15: no document of score zero is in a result; the result of a query
\* without a term, and of a query no term of which occurs in a stored
\* text, is the empty sequence.
C15_NoZeroScoreResult ==
  ret.op = "search_documents" =>
    LET q == Lower(ret.query)
        Found(id) ==
          \E p \in TermPlaces(q) :
            Occurrences(Lower(DictGet(vector_store.documents, id)),
                        SubSeq(q, p[1], p[2])) # {}
    IN /\ \A i \in DOMAIN ret.val :
            /\ ret.val[i].score > 0
            /\ Found(ret.val[i].document_id)
       /\ (\A id \in live : ~Found(id)) => ret.val = <<>>

\* C15 witness: a query of white space only, top_k = 3, over a store of
\* three documents: nothing is returned.
C15_Witness ==
  /\ ret.op = "search_documents"
  /\ ret.query = <<" ", "\t">>
  /\ ret.top_k = 3
  /\ Cardinality(live) = 3
  /\ ret.val = <<>>

\* C16: for top_k <= 0 the result of search_documents is the empty
\* sequence.
C16_NonPositiveTopKIsEmpty ==
  (ret.op = "search_documents" /\ ret.top_k <= 0) => ret.val = <<>>

\* The reading methods of the store.
ReadOps ==
  { "get_document", "get_document_text", "get_document_summary",
    "list_documents", "search_documents", "get_conversation_history" }

\* C21: a step of get_document, get_document_text, get_document_summary,
\* list_documents, search_documents or get_conversation_history leaves the
\* four maps of the store as they were, whether the id is stored or not.
C21_ReadsLeaveStore ==
  [][ret'.op \in ReadOps => vector_store' = vector_store]_vars

\* C21 witness: the history of an id without a ledger was read while other
\* documents were stored, and the id still has no ledger.
C21_Witness ==
  /\ ret.op = "get_conversation_history"
  /\ ret.id \notin DOMAIN vector_store.conversations
  /\ Cardinality(live) = 2

\* A summary with its seven fields, every one a string.
WellFormedSummary(summary) ==
  /\ DOMAIN summary = SummaryFields
  /\ \A f \in SummaryFields : summary[f].t = "str"

\* The model answered with the JSON object o, alone or in a code fence.
AnsweredWith(outcome, o) ==
  outcome.kind = "text" /\ outcome.text \in ResponsesOf(o)

TitleLine(text) ==
  IF text = <<"T", "\n", "x">> THEN "T"
  ELSE IF text = <<"a", "b">> THEN "ab"
  ELSE ""

\* C23: whatever the model call does, generate_summary raises nothing and
\* returns a summary of seven string fields; when the call raised or its
\* text is not a JSON object (alone or fenced), the summary is the fallback:
\* the first line of the text as title and the fixed sentences.
C23_SummaryOnEveryOutcome ==
  ret.op = "upload_pdf" =>
    /\ ~ret.raised
    /\ ret.summary # None
    /\ WellFormedSummary(ret.summary[1])
    /\ (~\E o \in SummaryObjects : AnsweredWith(ret.outcome, o)) =>
         /\ ret.summary[1].title = JStr(TitleLine(ret.text))
         /\ ret.summary[1].authors = JStr("Authors not extracted")
         /\ ret.summary[1].abstract =
              JStr("Unable to generate abstract automatically. Please review the document.")
         /\ ret.summary[1].problem_statement =
              JStr("Unable to extract problem statement. Please review the document.")
         /\ ret.summary[1].methodology =
              JStr("Unable to extract methodology. Please review the document.")
         /\ ret.summary[1].key_results =
              JStr("Unable to extract key results. Please review the document.")
         /\ ret.summary[1].conclusion =
              JStr("Unable to extract conclusion. Please review the document.")

\* C23 witness: the model answered with JSON that is no object (a list),
\* and the upload went through with the fallback summary.
C23_Witness ==
  /\ ret.op = "upload_pdf"
  /\ ret.val = 200
  /\ ret.outcome.text = <<Doc(JList(<<JStr("A")>>))>>
  /\ ret.text = <<"T", "\n", "x">>
  /\ vector_store.summaries[ret.id].authors = JStr("Authors not extracted")

\* C24: a store_document that returns False because of an internal error
\* leaves the four maps as they were.
C24_FailedStoreChangesNothing ==
  [][(ret'.op = "store_document" /\ ret'.val = FALSE)
       => vector_store' = vector_store]_vars

\* C25: with the ledgers changed by the handlers only, and every ask free
\* to wait at its await while other requests run, every ledger is a
\* sequence of pairs: a user message with the question of a request and
\* next to it the assistant message with the answer to that question.
C25_LedgersArePairs ==
  \A id \in DOMAIN vector_store.conversations :
    LET h == vector_store.conversations[id]
    IN /\ Len(h) % 2 = 0
       /\ \A k \in 1..(Len(h) \div 2) :
            /\ h[2 * k - 1].role = "user"
            /\ h[2 * k - 1].content \in { QuestionOf(r) : r \in Requests }
            /\ h[2 * k].role = "assistant"
            /\ h[2 * k].content = AnswerTo(h[2 * k - 1].content)

\* C25 witness: two asks on one document were waiting together, and the
\* document's ledger holds both their pairs.
C25_Witness ==
  /\ \E r \in Requests : pending[r].stage = "done" /\ pending[r].raced
  /\ \E id \in DOMAIN vector_store.conversations :
       /\ Len(vector_store.conversations[id]) = 4
       /\ \A r \in Requests : pending[r].id = id

\* C26: a step of add_conversation_message on an id, and a step of the
\* clear-conversation handler on an id, leave the texts, the summaries, the
\* metadata and the ledger of every other id as they were.
C26_LedgerWritesStayLocal ==
  [][ret'.op \in {"add_conversation_message", "clear_conversation"} =>
       /\ vector_store'.documents = vector_store.documents
       /\ vector_store'.summaries = vector_store.summaries
       /\ vector_store'.metadata = vector_store.metadata
       /\ \A id \in DocumentIds \ {ret'.id} :
            FnGet(vector_store'.conversations, id) =
              FnGet(vector_store.conversations, id)]_vars

\* C26 witness: the ledger of one document was cleared of its message
\* while the ledger of another document holds one.
C26_Witness ==
  /\ ret.op = "clear_conversation"
  /\ ret.val = 200
  /\ ret.held = 1
  /\ \E id \in DOMAIN vector_store.conversations \ {ret.id} :
       Len(vector_store.conversations[id]) = 1

\* C27: the context built for a supplied history of n messages is the
\* document part, then, when n > 0, the heading of the conversation and
\* one "role: content" line for each of the last min(3, n) messages, in
\* their order, and nothing else; for n = 0 and for no history it is the
\* document part alone.
C27_ContextHasLastThree ==
  ret.op = "answer_question" =>
    LET h == IF ret.supplied = None THEN <<>> ELSE ret.supplied[1]
        n == Len(h)
        k == IF n < 3 THEN n ELSE 3
        base == Len(ret.text) + 2
        c == ret.context
    IN /\ c[1] = "Document Content:\n"
       /\ \A i \in 1..Len(ret.text) : c[1 + i] = ret.text[i]
       /\ c[base] = "\n\n"
       /\ n = 0 => Len(c) = base
       /\ n > 0 =>
            /\ Len(c) = base + 1 + k
            /\ c[base + 1] = "Previous conversation:\n"
            /\ \A i \in 1..k :
                 c[base + 1 + i] =
                   h[n - k + i].role \o ": " \o h[n - k + i].content \o "\n"

\* C27 witness: a history of four messages whose first is not among the
\* last three; the context has three lines of conversation.
C27_Witness ==
  /\ ret.op = "answer_question"
  /\ ret.by_handler
  /\ ret.supplied # None
  /\ Len(ret.supplied[1]) = 4
  /\ \A i \in 2..4 : ret.supplied[1][i] # ret.supplied[1][1]
  /\ Len(ret.context) = Len(ret.text) + 6

====
